---- MODULE Spec2Model ----
(***************************************************************************)
(* TicketReduceProgram (src/src/TicketReduceProof.ts): the recursive       *)
(* reduction of lottery ticket actions into a ticket tree and a bank tree. *)
(*                                                                         *)
(* Hashes are modelled symbolically: a Poseidon digest is the term         *)
(* [prefix, value, inputs] of what was hashed, and a Merkle root is the    *)
(* leaf assignment it commits to, so two digests are equal exactly when    *)
(* their preimages are (collision resistance).                             *)
(***************************************************************************)
EXTENDS Integers, Sequences, FiniteSets, TLC

\* ---------------------------------------------------------------- bounds
MaxRound   == 1   \* round keys 0..MaxRound (the tree has 2^20 slots)
MaxId      == 2   \* ticket keys 0..MaxId inside one round's sub-tree
MaxChain   == 3   \* certificates in the chain that is followed
FieldOrder == 7   \* the order of Field, scaled down (Field.add wraps)

Rounds == 0..MaxRound
Ids    == 0..MaxId

\* ------------------------------------------------------- external values
\* constants.ts: TICKET_PRICE (a UInt64)
TICKET_PRICE == 2

\* Ticket.ts: a ticket; the amount is the number of copies bought.  Two
\* tickets that differ in their numbers and in their amount.
Tickets == { [numbers |-> 1, owner |-> 1, amount |-> 1],
             [numbers |-> 2, owner |-> 1, amount |-> 2] }

\* Ticket.hash(): a digest of the ticket's fields, never Field(0)
TicketHash(t) == t.numbers + 3 * t.owner

\* Field.add
FieldAdd(a, b) == (a + b) % FieldOrder

\* A Field that is a plain number, as a digest term
Fld(n) == [prefix |-> "Field", value |-> n, inputs |-> <<>>]

\* Poseidon.hashWithPrefix(prefix, inputs)
hashWithPrefix(prefix, inputs) == [prefix |-> prefix, value |-> 0, inputs |-> inputs]

\* emptyHashWithPrefix(prefix)
emptyHashWithPrefix(prefix) == [prefix |-> prefix, value |-> 0, inputs |-> <<>>]

\* LotteryAction.toFields(action): the ticket's fields, then the round
LotteryActionToFields(action) ==
  << Fld(action.ticket.numbers), Fld(action.ticket.owner),
     Fld(action.ticket.amount), Fld(action.round) >>

\* ---------------------------------------------------------- digest chains
actionListAdd(hash, action) ==
  hashWithPrefix("MinaZkappSeqEvents**",
    << hash,
       hashWithPrefix("MinaZkappEvent******", LotteryActionToFields(action)) >>)

ActionListEmptyHash == emptyHashWithPrefix("MinaZkappActionsEmpty")

\* merkleActionsAdd hashing under a tag of its own
merkleActionsAdd_OwnTag(hash, actionsHash) ==
  hashWithPrefix("MinaZkappActionState", << hash, actionsHash >>)

merkleActionsAdd(hash, actionsHash) ==
  hashWithPrefix("MinaZkappSeqEvents**", << hash, actionsHash >>)

MerkleActionsEmptyHash == emptyHashWithPrefix("MinaZkappActionStateEmptyElt")

\* ------------------------------------------------------------ tree witness
\* MerkleMap20Witness: the key of a slot and the siblings on its path.  The
\* siblings commit to every other leaf, so they are kept as the leaf
\* assignment with the witnessed slot blanked.
computeRootAndKey(witness, value) ==
  << [witness.siblings EXCEPT ![witness.key] = value], witness.key >>


\* ------------------------------------------------------------- the methods
\* init setting finalState to the empty action state instead of initialState
init_FinalStateEmpty(input, initialState, initialTicketRoot, initialBankRoot) ==
  [ initialState          |-> initialState,
    finalState            |-> MerkleActionsEmptyHash,
    initialTicketRoot     |-> initialTicketRoot,
    initialBankRoot       |-> initialBankRoot,
    newTicketRoot         |-> initialTicketRoot,
    newBankRoot           |-> initialBankRoot,
    processedActionList   |-> ActionListEmptyHash,
    lastProcessedRound    |-> 0,
    lastProcessedTicketId |-> 0 ]

\* init: the base certificate's public output
init(input, initialState, initialTicketRoot, initialBankRoot) ==
  [ initialState          |-> initialState,
    finalState            |-> initialState,
    initialTicketRoot     |-> initialTicketRoot,
    initialBankRoot       |-> initialBankRoot,
    newTicketRoot         |-> initialTicketRoot,
    newBankRoot           |-> initialBankRoot,
    processedActionList   |-> ActionListEmptyHash,
    lastProcessedRound    |-> 0,
    lastProcessedTicketId |-> 0 ]

\* addTicket, lines 95-100: the roots and keys read from the ticket witnesses
\* with the ticket's slot taken to be empty
WitnessedTicket(input) ==
  LET rt == computeRootAndKey(input.roundTicketWitness, 0)
      rw == computeRootAndKey(input.roundWitness, rt[1])
  IN [ prevRoundRoot |-> rt[1], ticketId |-> rt[2],
       prevTicketRoot |-> rw[1], round |-> rw[2] ]

\* addTicket restarting the ids whenever the round changes, up or down
ExpectedTicketId_ResetOnChange(round, prev) ==
  IF round # prev.lastProcessedRound
    THEN 1
    ELSE FieldAdd(prev.lastProcessedTicketId, 1)

\* addTicket, lines 102-106
ExpectedTicketId(round, prev) ==
  IF round > prev.lastProcessedRound
    THEN 1
    ELSE FieldAdd(prev.lastProcessedTicketId, 1)

\* addTicket, lines 124-126: the bank root and key with the slot at bankValue
WitnessedBank(input) ==
  LET bw == computeRootAndKey(input.bankWitness, input.bankValue)
  IN [ prevBankRoot |-> bw[1], bankKey |-> bw[2] ]

\* addTicket without the verification of the predecessor's proof
AddTicketAssertions_NoVerify(input, prevProof) ==
  LET prev == prevProof.publicOutput
      w    == WitnessedTicket(input)
      b    == WitnessedBank(input)
  IN IF w.ticketId # ExpectedTicketId(w.round, prev)
       THEN "Wrong id for ticket"
     ELSE IF w.prevTicketRoot # prev.newTicketRoot THEN "Wrong ticket root"
     ELSE IF w.round # input.action.round THEN "Wrong round in witness"
     ELSE IF b.bankKey # w.round THEN "Wrong bankKey"
     ELSE IF b.prevBankRoot # prev.newBankRoot THEN "Wrong bank root"
     ELSE ""

\* addTicket without the assertion that the witnessed round is the action's
AddTicketAssertions_NoRoundCheck(input, prevProof) ==
  LET prev == prevProof.publicOutput
      w    == WitnessedTicket(input)
      b    == WitnessedBank(input)
  IN IF ~prevProof.valid THEN "Proof verification failed"
     ELSE IF w.ticketId # ExpectedTicketId(w.round, prev)
       THEN "Wrong id for ticket"
     ELSE IF w.prevTicketRoot # prev.newTicketRoot THEN "Wrong ticket root"
     ELSE IF b.bankKey # w.round THEN "Wrong bankKey"
     ELSE IF b.prevBankRoot # prev.newBankRoot THEN "Wrong bank root"
     ELSE ""

\* addTicket without the assertion that the bank witness's key is the round
AddTicketAssertions_NoBankKeyCheck(input, prevProof) ==
  LET prev == prevProof.publicOutput
      w    == WitnessedTicket(input)
      b    == WitnessedBank(input)
  IN IF ~prevProof.valid THEN "Proof verification failed"
     ELSE IF w.ticketId # ExpectedTicketId(w.round, prev)
       THEN "Wrong id for ticket"
     ELSE IF w.prevTicketRoot # prev.newTicketRoot THEN "Wrong ticket root"
     ELSE IF w.round # input.action.round THEN "Wrong round in witness"
     ELSE IF b.prevBankRoot # prev.newBankRoot THEN "Wrong bank root"
     ELSE ""

\* addTicket without the assertion on the ticket root
AddTicketAssertions_NoTicketRootCheck(input, prevProof) ==
  LET prev == prevProof.publicOutput
      w    == WitnessedTicket(input)
      b    == WitnessedBank(input)
  IN IF ~prevProof.valid THEN "Proof verification failed"
     ELSE IF w.ticketId # ExpectedTicketId(w.round, prev)
       THEN "Wrong id for ticket"
     ELSE IF w.round # input.action.round THEN "Wrong round in witness"
     ELSE IF b.bankKey # w.round THEN "Wrong bankKey"
     ELSE IF b.prevBankRoot # prev.newBankRoot THEN "Wrong bank root"
     ELSE ""

\* addTicket without the two root assertions
AddTicketAssertions_NoRootCheck(input, prevProof) ==
  LET prev == prevProof.publicOutput
      w    == WitnessedTicket(input)
      b    == WitnessedBank(input)
  IN IF ~prevProof.valid THEN "Proof verification failed"
     ELSE IF w.ticketId # ExpectedTicketId(w.round, prev)
       THEN "Wrong id for ticket"
     ELSE IF w.round # input.action.round THEN "Wrong round in witness"
     ELSE IF b.bankKey # w.round THEN "Wrong bankKey"
     ELSE ""

\* addTicket's assertions in the order they run: "" when all hold, and else
\* the message of the first one that fails
AddTicketAssertions(input, prevProof) ==
  LET prev == prevProof.publicOutput
      w    == WitnessedTicket(input)
      b    == WitnessedBank(input)
  IN IF ~prevProof.valid THEN "Proof verification failed"
     ELSE IF w.ticketId # ExpectedTicketId(w.round, prev)
       THEN "Wrong id for ticket"
     ELSE IF w.prevTicketRoot # prev.newTicketRoot THEN "Wrong ticket root"
     ELSE IF w.round # input.action.round THEN "Wrong round in witness"
     ELSE IF b.bankKey # w.round THEN "Wrong bankKey"
     ELSE IF b.prevBankRoot # prev.newBankRoot THEN "Wrong bank root"
     ELSE ""

\* addTicket writing the round's old sub-tree root back into the round tree
UpdatedTicketRoot_OldRoundRoot(input) ==
  LET prevRoundRoot == computeRootAndKey(input.roundTicketWitness, 0)[1]
  IN computeRootAndKey(input.roundWitness, prevRoundRoot)[1]

\* addTicket, lines 116-122: the ticket root with the ticket written
UpdatedTicketRoot(input) ==
  LET newTicketRoundRoot ==
        computeRootAndKey(input.roundTicketWitness,
                          TicketHash(input.action.ticket))[1]
  IN computeRootAndKey(input.roundWitness, newTicketRoundRoot)[1]

\* addTicket adding the ticket's amount without the price
UpdatedBankRoot_NoPrice(input) ==
  computeRootAndKey(input.bankWitness,
    FieldAdd(input.bankValue, input.action.ticket.amount))[1]

\* addTicket, lines 134-136: the bank root with the ticket's price added
UpdatedBankRoot(input) ==
  computeRootAndKey(input.bankWitness,
    FieldAdd(input.bankValue, TICKET_PRICE * input.action.ticket.amount))[1]

\* addTicket with the anchors taken from the current roots instead of being
\* carried forward
AddTicketOutput_AnchorsFromCurrent(input, prev) ==
  LET round == WitnessedTicket(input).round
  IN [ initialState          |-> prev.initialState,
       finalState            |-> prev.finalState,
       initialTicketRoot     |-> prev.newTicketRoot,
       initialBankRoot       |-> prev.newBankRoot,
       newTicketRoot         |-> UpdatedTicketRoot(input),
       newBankRoot           |-> UpdatedBankRoot(input),
       processedActionList   |->
         actionListAdd(prev.processedActionList, input.action),
       lastProcessedRound    |-> round,
       lastProcessedTicketId |-> ExpectedTicketId(round, prev) ]

\* addTicket, lines 138-153: the public output
AddTicketOutput(input, prev) ==
  LET round == WitnessedTicket(input).round
  IN [ initialState          |-> prev.initialState,
       finalState            |-> prev.finalState,
       initialTicketRoot     |-> prev.initialTicketRoot,
       initialBankRoot       |-> prev.initialBankRoot,
       newTicketRoot         |-> UpdatedTicketRoot(input),
       newBankRoot           |-> UpdatedBankRoot(input),
       processedActionList   |->
         actionListAdd(prev.processedActionList, input.action),
       lastProcessedRound    |-> round,
       lastProcessedTicketId |-> ExpectedTicketId(round, prev) ]

\* addTicket: [error, publicOutput]; a certificate exists only when error = ""
addTicket(input, prevProof) ==
  [ error        |-> AddTicketAssertions(input, prevProof),
    publicOutput |-> AddTicketOutput(input, prevProof.publicOutput) ]

\* cutActions, the exported function: [error, publicOutput]
cutActions(input, prevProof) ==
  LET prev       == prevProof.publicOutput
      finalState == merkleActionsAdd(prev.finalState, prev.processedActionList)
      processedActionList == ActionListEmptyHash
  IN [ error |-> IF ~prevProof.valid THEN "Proof verification failed" ELSE "",
       publicOutput |->
         [ initialState          |-> prev.initialState,
           finalState            |-> finalState,
           initialTicketRoot     |-> prev.initialTicketRoot,
           initialBankRoot       |-> prev.initialBankRoot,
           newTicketRoot         |-> prev.newTicketRoot,
           newBankRoot           |-> prev.newBankRoot,
           processedActionList   |-> processedActionList,
           lastProcessedRound    |-> prev.lastProcessedRound,
           lastProcessedTicketId |-> prev.lastProcessedTicketId ] ]

\* TicketReduceProgram.methods: what each method of the program runs
ProgramInit(input, initialState, initialTicketRoot, initialBankRoot) ==
  init(input, initialState, initialTicketRoot, initialBankRoot)

ProgramAddTicket(input, prevProof) == addTicket(input, prevProof)

\* The cutActions method running the exported cutActions
ProgramCutActions_ExportedFold(input, prevProof) == cutActions(input, prevProof)

ProgramCutActions(input, prevProof) == addTicket(input, prevProof)

\* ---------------------------------------------------------------- state
VARIABLES
  chain,    \* the certificates from the base one to the latest, each
            \* [method, publicInput, publicOutput], each proved from the one before
  anchors,  \* the private inputs given to init
  attempt   \* the last call of a method: its inputs, the error it ended with
            \* and whether the call before it was rejected

vars == << chain, anchors, attempt >>

\* ------------------------------------------------------- the driver's inputs
EmptySubtree    == [i \in Ids |-> 0]
EmptyTicketTree == [r \in Rounds |-> EmptySubtree]
EmptyBankTree   == [r \in Rounds |-> 0]

Actions == [ticket : Tickets, round : Rounds]

\* The anchors a chain may start from: a new lottery, or a lottery in which
\* round 1 already holds a ticket and has a bank leaf just below the field
\* order
AnchorChoices ==
  LET t == CHOOSE x \in Tickets : x.numbers = 1
  IN { [ initialState      |-> MerkleActionsEmptyHash,
         initialTicketRoot |-> EmptyTicketTree,
         initialBankRoot   |-> EmptyBankTree ],
       [ initialState      |-> Fld(1),
         initialTicketRoot |-> [EmptyTicketTree EXCEPT ![1][1] = TicketHash(t)],
         initialBankRoot   |-> [EmptyBankTree EXCEPT ![1] = FieldOrder - 1] ] }

\* The witness of slot key in tree: the key and the rest of the tree
Witness(tree, key, blank) ==
  [key |-> key, siblings |-> [tree EXCEPT ![key] = blank]]

\* An input whose ticket witnesses address slot (wr, id) of ticketTree and
\* whose bank witness addresses slot bk of bankTree
BuildInput(action, ticketTree, wr, id, bankTree, bk, bankValue) ==
  [ action             |-> action,
    roundWitness       |-> Witness(ticketTree, wr, EmptySubtree),
    roundTicketWitness |-> Witness(ticketTree[wr], id, 0),
    bankWitness        |-> Witness(bankTree, bk, 0),
    bankValue          |-> bankValue ]

\* The input a driver builds for action against certificate output out, for
\* the ticket slot id
WellBuilt(action, id, out) ==
  BuildInput(action, out.newTicketRoot, action.round, id,
             out.newBankRoot, action.round, out.newBankRoot[action.round])

\* The valid proof of certificate i of the chain
ProofOf(i) == [publicOutput |-> chain[i].publicOutput, valid |-> TRUE, index |-> i]

\* An invalid proof that claims the latest public output
ForgedProof ==
  [publicOutput |-> chain[Len(chain)].publicOutput, valid |-> FALSE,
   index |-> Len(chain)]

\* Inputs that are well built against the latest certificate, for any slot
FreshInputs ==
  LET out == chain[Len(chain)].publicOutput
  IN { WellBuilt(a, id, out) : a \in Actions, id \in Ids }

\* Inputs that differ from a well built one in one respect: ticket witnesses
\* built against the certificate before the latest, a bank witness built
\* against the certificate before the latest, both of them built against it
\* (the input of another successor of that certificate), witnesses for another
\* round than the action's, a bank witness for another round than the ticket
\* witnesses', another bank value
DeviantInputs ==
  LET out == chain[Len(chain)].publicOutput
      T   == out.newTicketRoot
      B   == out.newBankRoot
      id(a) == ExpectedTicketId(a.round, out)
      Earlier == {Len(chain) - 1} \ {0}
  IN UNION {
       { BuildInput(a, chain[j].publicOutput.newTicketRoot, a.round, id(a),
                    B, a.round, B[a.round]) : j \in Earlier }
       \cup
       { BuildInput(a, T, a.round, id(a), chain[j].publicOutput.newBankRoot,
                    a.round, chain[j].publicOutput.newBankRoot[a.round])
           : j \in Earlier }
       \cup
       { WellBuilt(a, ExpectedTicketId(a.round, chain[j].publicOutput),
                   chain[j].publicOutput) : j \in Earlier }
       \cup
       { BuildInput(a, T, r, ExpectedTicketId(r, out), B, r, B[r])
           : r \in Rounds \ {a.round} }
       \cup
       { BuildInput(a, T, a.round, id(a), B, r, B[r]) : r \in Rounds \ {a.round} }
       \cup
       { BuildInput(a, T, a.round, id(a), B, a.round, v)
           : v \in {FieldAdd(B[a.round], 1), FieldAdd(B[a.round], FieldOrder - 1)} }
       : a \in Actions }

\* What a caller passes to addTicket or cutActions.  On the latest certificate:
\* any input above.  With an invalid proof, or on an earlier certificate of the
\* chain: the input well built for it and for the slot it expects.  After a
\* rejected call the driver rebuilds its input in that way against the latest
\* certificate.
Calls ==
  LET Expected(i) ==
        { WellBuilt(a, ExpectedTicketId(a.round, chain[i].publicOutput),
                    chain[i].publicOutput) : a \in Actions }
  IN IF attempt.error # ""
       THEN { [input |-> x, prevProof |-> ProofOf(Len(chain))]
                : x \in Expected(Len(chain)) }
       ELSE { [input |-> x, prevProof |-> ProofOf(Len(chain))]
                : x \in FreshInputs \cup DeviantInputs }
            \cup
            { [input |-> x, prevProof |-> ForgedProof] : x \in Expected(Len(chain)) }
            \cup
            UNION { { [input |-> x, prevProof |-> ProofOf(i)] : x \in Expected(i) }
                      : i \in 1..(Len(chain) - 1) }

\* The input given to init, which ignores it
InitInputs ==
  { BuildInput(a, EmptyTicketTree, a.round, 1, EmptyBankTree, a.round, 0)
      : a \in {x \in Actions : x.round = 0} }

\* -------------------------------------------------------------- behaviour
Init ==
  /\ chain = << >>
  /\ anchors \in AnchorChoices
  /\ attempt = [method |-> "none", error |-> "", retry |-> FALSE]

\* TicketReduceProgram.init
InitStep ==
  \E input \in InitInputs :
    /\ chain = << >>
    /\ chain' = << [ method       |-> "init",
                     publicInput  |-> input,
                     publicOutput |->
                       ProgramInit(input, anchors.initialState,
                                   anchors.initialTicketRoot,
                                   anchors.initialBankRoot) ] >>
    /\ attempt' = [ method |-> "init", publicInput |-> input, error |-> "",
                    retry |-> attempt.error # "" ]
    /\ UNCHANGED anchors

\* A method with a predecessor: the certificate it proves extends the chain
\* at the predecessor, and a failed assertion leaves no certificate
Prove(method, input, prevProof, result) ==
  /\ attempt' = [ method |-> method, publicInput |-> input,
                  prevProof |-> prevProof, error |-> result.error,
                  retry |-> attempt.error # "" ]
  /\ chain' =
       IF result.error = ""
         THEN Append(SubSeq(chain, 1, prevProof.index),
                     [ method       |-> method,
                       publicInput  |-> input,
                       publicOutput |-> result.publicOutput ])
         ELSE chain
  /\ UNCHANGED anchors

\* TicketReduceProgram.addTicket
AddTicketStep ==
  /\ chain # << >>
  /\ \E call \in Calls :
       /\ call.prevProof.index < MaxChain
       /\ Prove("addTicket", call.input, call.prevProof,
                ProgramAddTicket(call.input, call.prevProof))

\* TicketReduceProgram.cutActions
CutActionsStep ==
  /\ chain # << >>
  /\ \E call \in Calls :
       /\ call.prevProof.index < MaxChain
       /\ Prove("cutActions", call.input, call.prevProof,
                ProgramCutActions(call.input, call.prevProof))

Next == InitStep \/ AddTicketStep \/ CutActionsStep

Spec == Init /\ [][Next]_vars

\* ------------------------------------------------------------------ claims
Out(i) == chain[i].publicOutput
In(i)  == chain[i].publicInput

\* The certificates after the base one
Steps == 2..Len(chain)

\* C1: every certificate of a chain carries the anchors given to init: its
\* initialState, initialTicketRoot and initialBankRoot are S0, T0 and B0.
\* The exported cutActions, applied to a certificate of the chain, carries
\* them forward as well.
C1_AnchorInvariance ==
  \A i \in 1..Len(chain) :
    /\ Out(i).initialState = anchors.initialState
    /\ Out(i).initialTicketRoot = anchors.initialTicketRoot
    /\ Out(i).initialBankRoot = anchors.initialBankRoot
    /\ LET cut == cutActions(In(i), ProofOf(i)).publicOutput
       IN /\ cut.initialState = anchors.initialState
          /\ cut.initialTicketRoot = anchors.initialTicketRoot
          /\ cut.initialBankRoot = anchors.initialBankRoot

\* A chain of three certificates, extended by addTicket and then cutActions,
\* whose roots have moved away from the anchors
C1_Witness ==
  /\ Len(chain) = 3
  /\ chain[2].method = "addTicket"
  /\ chain[3].method = "cutActions"
  /\ Out(2).newTicketRoot # anchors.initialTicketRoot
  /\ Out(2).newBankRoot # anchors.initialBankRoot

\* The steps of the chain that processed a ticket of round r.  Both methods
\* of the program run addTicket, so every step assigns a ticket id.
StepsOfRound(r) == { i \in Steps : Out(i).lastProcessedRound = r }

\* C2: two consecutive addTicket certificates of the same round have ticket
\* ids that differ by +1, the first addTicket on a strictly greater round has
\* ticket id 1, and so the ids assigned within a round run 1, 2, 3, ... with
\* no gap and no repeat.
C2_IdMonotonicity ==
  /\ \A i \in Steps :
       /\ (i > 2 /\ Out(i).lastProcessedRound = Out(i - 1).lastProcessedRound)
            => Out(i).lastProcessedTicketId = Out(i - 1).lastProcessedTicketId + 1
       /\ Out(i).lastProcessedRound > Out(i - 1).lastProcessedRound
            => Out(i).lastProcessedTicketId = 1
  /\ \A r \in Rounds : \A i \in StepsOfRound(r) :
       Out(i).lastProcessedTicketId =
         Cardinality({ j \in StepsOfRound(r) : j <= i })

\* C3: the program's cutActions transition yields finalState =
\* merkleActionsAdd(P.finalState, P.processedActionList) and
\* processedActionList = the empty digest, and copies newTicketRoot,
\* newBankRoot, lastProcessedRound and lastProcessedTicketId from P.
C3_BatchClosure ==
  \A i \in Steps :
    chain[i].method = "cutActions" =>
      /\ Out(i).finalState =
           merkleActionsAdd(Out(i - 1).finalState, Out(i - 1).processedActionList)
      /\ Out(i).processedActionList = ActionListEmptyHash
      /\ Out(i).newTicketRoot = Out(i - 1).newTicketRoot
      /\ Out(i).newBankRoot = Out(i - 1).newBankRoot
      /\ Out(i).lastProcessedRound = Out(i - 1).lastProcessedRound
      /\ Out(i).lastProcessedTicketId = Out(i - 1).lastProcessedTicketId

\* The roots an input's witnesses recompute: the ticket root with the slot
\* taken to be empty, the bank root with the slot taken to hold bankValue
RecomputedTicketRoot(input) ==
  computeRootAndKey(input.roundWitness,
                    computeRootAndKey(input.roundTicketWitness, 0)[1])[1]

RecomputedBankRoot(input) ==
  computeRootAndKey(input.bankWitness, input.bankValue)[1]

Called == attempt.method \in {"addTicket", "cutActions"}

C5_BankLocality ==
  \A i \in Steps :
    chain[i].method = "addTicket" =>
      LET r   == In(i).action.round
          old == Out(i - 1).newBankRoot
          new == Out(i).newBankRoot
      IN /\ old[r] = In(i).bankValue
         /\ new[r] = (In(i).bankValue
                        + TICKET_PRICE * In(i).action.ticket.amount) % FieldOrder
         /\ \A q \in Rounds \ {r} : new[q] = old[q]

\* Two addTicket steps, the second for another round than the first, and a
\* bank leaf of the first round that is no longer zero
C5_Witness ==
  /\ Len(chain) = 3
  /\ chain[2].method = "addTicket"
  /\ chain[3].method = "addTicket"
  /\ In(2).action.round # In(3).action.round
  /\ Out(3).newBankRoot[In(2).action.round] # 0

\* C6: a successful addTicket changes the ticket tree at the slot
\* (round, ticketId) only: the slot held the empty placeholder and now holds
\* the ticket's commitment, every other slot is as it was, and putting the
\* placeholder back gives the predecessor's newTicketRoot.
C6_TicketLocality ==
  \A i \in Steps :
    chain[i].method = "addTicket" =>
      LET r   == In(i).action.round
          id  == Out(i).lastProcessedTicketId
          old == Out(i - 1).newTicketRoot
          new == Out(i).newTicketRoot
      IN /\ old[r][id] = 0
         /\ new[r][id] = TicketHash(In(i).action.ticket)
         /\ \A q \in Rounds, j \in Ids :
              (q # r \/ j # id) => new[q][j] = old[q][j]
         /\ [new EXCEPT ![r][id] = 0] = old

\* Two addTicket steps that wrote two slots of the same round
C6_Witness ==
  /\ Len(chain) = 3
  /\ chain[2].method = "addTicket"
  /\ chain[3].method = "addTicket"
  /\ In(2).action.round = In(3).action.round
  /\ Out(3).newTicketRoot[In(3).action.round][1] # 0
  /\ Out(3).newTicketRoot[In(3).action.round][2] # 0

\* The digest of a sequence of actions folded into digest d by actionListAdd
RECURSIVE FoldActions(_, _)
FoldActions(d, acts) ==
  IF acts = << >> THEN d
  ELSE FoldActions(actionListAdd(d, Head(acts)), Tail(acts))

\* The state after folding a sequence of batch digests into s by
\* merkleActionsAdd
RECURSIVE FoldBatches(_, _)
FoldBatches(s, digests) ==
  IF digests = << >> THEN s
  ELSE FoldBatches(merkleActionsAdd(s, Head(digests)), Tail(digests))

\* The actions addTicket accepted since the last cutActions, up to step n
RECURSIVE OpenActions(_)
OpenActions(n) ==
  IF n = 1 \/ chain[n].method = "cutActions" THEN << >>
  ELSE Append(OpenActions(n - 1), In(n).action)

\* The digests of the batches closed by cutActions up to step n, in order
RECURSIVE ClosedDigests(_)
ClosedDigests(n) ==
  IF n = 1 THEN << >>
  ELSE IF chain[n].method = "cutActions"
    THEN Append(ClosedDigests(n - 1),
                FoldActions(ActionListEmptyHash, OpenActions(n - 1)))
    ELSE ClosedDigests(n - 1)

\* C7: finalState is the merkleActionsAdd fold, from initialState, of the
\* digests of the batches closed so far, each the actionListAdd fold from the
\* empty digest of the actions addTicket accepted between two closures; and
\* processedActionList is the fold of the actions accepted since the last
\* closure.
C7_DigestsTrackHistory ==
  \A n \in 1..Len(chain) :
    /\ Out(n).finalState = FoldBatches(Out(n).initialState, ClosedDigests(n))
    /\ Out(n).processedActionList
         = FoldActions(ActionListEmptyHash, OpenActions(n))

\* C8: when two consecutive cutActions transitions have succeeded, the second
\* yields finalState = merkleActionsAdd(finalState after the first, the empty
\* digest), and newTicketRoot and newBankRoot are those before the first.
C8_RepeatedClosure ==
  \A i \in Steps :
    (i > 2 /\ chain[i].method = "cutActions" /\ chain[i - 1].method = "cutActions")
      => /\ Out(i).finalState
              = merkleActionsAdd(Out(i - 1).finalState, ActionListEmptyHash)
         /\ Out(i).newTicketRoot = Out(i - 2).newTicketRoot
         /\ Out(i).newBankRoot = Out(i - 2).newBankRoot

\* C9: the base certificate comes from init, which takes no predecessor;
\* every other certificate comes from a call of addTicket or cutActions whose
\* prevProof was the valid proof of the certificate just before it in the
\* chain; and a call with an invalid prevProof produces no certificate.
C9_ChainIntegrity ==
  [][ /\ ( attempt'.method \in {"addTicket", "cutActions"}
           /\ ~attempt'.prevProof.valid )
         => (attempt'.error # "" /\ chain' = chain)
      /\ chain' # chain =>
           LET n == Len(chain')
           IN IF attempt'.method = "init"
                THEN n = 1 /\ chain'[1].method = "init"
                ELSE /\ n > 1
                     /\ chain'[n].method = attempt'.method
                     /\ attempt'.prevProof.valid
                     /\ attempt'.prevProof.publicOutput
                          = chain'[n - 1].publicOutput
                     /\ SubSeq(chain', 1, n - 1) = SubSeq(chain, 1, n - 1)
    ]_vars

\* A call with an invalid proof of the latest certificate and an input that
\* is accepted with the valid proof
C9_Witness ==
  /\ Called
  /\ ~attempt.prevProof.valid
  /\ attempt.error = "Proof verification failed"
  /\ AddTicketAssertions(attempt.publicInput,
                         [attempt.prevProof EXCEPT !.valid = TRUE]) = ""

\* The four failures of a call, read off its inputs: an invalid predecessor,
\* a ticket id that is not the expected one, a stale root, a round mismatch
InvalidPredecessor(call) == ~call.prevProof.valid

WrongTicketId(call) ==
  LET prev  == call.prevProof.publicOutput
      round == call.publicInput.roundWitness.key
  IN call.publicInput.roundTicketWitness.key #
       IF round > prev.lastProcessedRound
         THEN 1
         ELSE (prev.lastProcessedTicketId + 1) % FieldOrder

StaleRoot(call) ==
  \/ RecomputedTicketRoot(call.publicInput)
       # call.prevProof.publicOutput.newTicketRoot
  \/ RecomputedBankRoot(call.publicInput)
       # call.prevProof.publicOutput.newBankRoot

RoundMismatch(call) ==
  \/ call.publicInput.roundWitness.key # call.publicInput.action.round
  \/ call.publicInput.bankWitness.key # call.publicInput.roundWitness.key

\* C10: a call of addTicket or cutActions that hits one of the four failures
\* yields no certificate and leaves the chain, its latest certificate and the
\* anchors exactly as they were, so that what the latest certificate accepts
\* is what it accepted before the call.
C10_AllOrNothing ==
  [][ ( /\ attempt'.method \in {"addTicket", "cutActions"}
        /\ \/ InvalidPredecessor(attempt') \/ WrongTicketId(attempt')
           \/ StaleRoot(attempt') \/ RoundMismatch(attempt') )
      => /\ attempt'.error # ""
         /\ chain' = chain
         /\ anchors' = anchors ]_vars

\* A call accepted on the latest certificate right after a rejected call on
\* the same certificate
C10_Witness ==
  /\ Called
  /\ attempt.retry
  /\ attempt.error = ""
  /\ attempt.prevProof.index = Len(chain) - 1

\* C11: init(S0, T0, B0) yields, whatever input it is given, the certificate
\* with initialState = finalState = S0, initialTicketRoot = newTicketRoot = T0,
\* initialBankRoot = newBankRoot = B0, the empty action digest as
\* processedActionList, lastProcessedRound = 0 and lastProcessedTicketId = 0.
C11_InitCertificate ==
  LET base == [ initialState          |-> anchors.initialState,
                finalState            |-> anchors.initialState,
                initialTicketRoot     |-> anchors.initialTicketRoot,
                initialBankRoot       |-> anchors.initialBankRoot,
                newTicketRoot         |-> anchors.initialTicketRoot,
                newBankRoot           |-> anchors.initialBankRoot,
                processedActionList   |->
                  [prefix |-> "MinaZkappActionsEmpty", value |-> 0, inputs |-> <<>>],
                lastProcessedRound    |-> 0,
                lastProcessedTicketId |-> 0 ]
      Inputs == InitInputs \cup { In(i) : i \in 1..Len(chain) }
  IN /\ chain # << >> => (chain[1].method = "init" /\ Out(1) = base)
     /\ \A x \in Inputs :
          ProgramInit(x, anchors.initialState, anchors.initialTicketRoot,
                      anchors.initialBankRoot) = base

\* A base certificate proved from anchors that are not those of a new
\* lottery, with an input whose ticket has amount 2
C11_Witness ==
  /\ Len(chain) = 1
  /\ chain[1].method = "init"
  /\ anchors.initialState # MerkleActionsEmptyHash
  /\ anchors.initialTicketRoot # EmptyTicketTree
  /\ In(1).action.ticket.amount = 2

\* The sum of ticket.amount over the tickets that addTicket transitions
\* accepted for round r, up to step n of the chain
RECURSIVE AcceptedAmount(_, _)
AcceptedAmount(r, n) ==
  IF n <= 1 THEN 0
  ELSE AcceptedAmount(r, n - 1)
       + (IF chain[n].method = "addTicket" /\ In(n).action.round = r
            THEN In(n).action.ticket.amount ELSE 0)

\* C12: the bank leaf of each round r is its value in the initial bank tree
\* plus TICKET_PRICE times the sum of ticket.amount over the tickets addTicket
\* accepted for round r (a Field sum); and an addTicket whose bankValue
\* differs from round r's current bank leaf is rejected.
C12_RunningPot ==
  /\ \A n \in 1..Len(chain) : \A r \in Rounds :
       Out(n).newBankRoot[r] =
         (anchors.initialBankRoot[r] + TICKET_PRICE * AcceptedAmount(r, n))
           % FieldOrder
  /\ ( /\ attempt.method = "addTicket"
       /\ attempt.publicInput.bankValue #
            attempt.prevProof.publicOutput.newBankRoot
              [attempt.publicInput.action.round] )
       => attempt.error # ""

\* The running digests of the latest certificate (its finalState and
\* processedActionList, and the finalState the exported cutActions folds from
\* it) and the digests of the chain's batches, closed or open
RunningDigests ==
  IF chain = << >> THEN {}
  ELSE LET n == Len(chain)
       IN { Out(n).finalState, Out(n).processedActionList,
            cutActions(In(n), ProofOf(n)).publicOutput.finalState }

BatchDigests ==
  {ActionListEmptyHash} \cup { Out(i).processedActionList : i \in 1..Len(chain) }

\* The digest of one action, the second input of actionListAdd's outer hash
EventDigest(a) ==
  [ prefix |-> "MinaZkappEvent******", value |-> 0,
    inputs |-> << Fld(a.ticket.numbers), Fld(a.ticket.owner),
                  Fld(a.ticket.amount), Fld(a.round) >> ]

\* C13 as stated: merkleActionsAdd hashes under another domain tag than
\* actionListAdd, so that appending an action to a running digest never
\* gives the digest that appending a closed-batch digest to it gives.
C13_DistinctAppendTags ==
  \A d \in RunningDigests, a \in Actions, x \in BatchDigests :
    /\ merkleActionsAdd(d, x).prefix # actionListAdd(d, a).prefix
    /\ merkleActionsAdd(d, x) # actionListAdd(d, a)

\* C13 as amended: merkleActionsAdd and actionListAdd hash under the same
\* domain tag; the two families differ in the tags of their empty digests and
\* in the second input, which for an action is its digest under the event
\* tag.  Appending x to d gives what appending action a to d gives exactly
\* when x is the event digest of a; no batch digest is an event digest, so
\* appending an action never gives what appending a batch digest gives.
\* (Looked at on each certificate as it is produced: a rejected call leaves
\* the digests it was checked on.)
C13_SharedAppendTag ==
  /\ ActionListEmptyHash.prefix # MerkleActionsEmptyHash.prefix
  /\ \A d \in (IF attempt.error = "" THEN RunningDigests ELSE {}), a \in Actions :
       /\ \A x \in BatchDigests \cup { EventDigest(b) : b \in Actions } :
            /\ merkleActionsAdd(d, x).prefix = actionListAdd(d, a).prefix
            /\ (merkleActionsAdd(d, x) = actionListAdd(d, a))
                 <=> (x = EventDigest(a))
       /\ \A x \in BatchDigests :
            /\ x # EventDigest(a)
            /\ merkleActionsAdd(d, x) # actionListAdd(d, a)

\* A chain whose certificates carry three different batch digests
C13_Witness ==
  /\ Len(chain) = 3
  /\ Cardinality(BatchDigests) = 3
  /\ Out(3).processedActionList # ActionListEmptyHash

\* A certificate is Accumulating when its processedActionList is not the empty
\* digest, and Base or BetweenBatches when it is
Accumulating(out) ==
  out.processedActionList
    # [prefix |-> "MinaZkappActionsEmpty", value |-> 0, inputs |-> <<>>]

\* C14: init yields a Base certificate, every successful addTicket yields an
\* Accumulating one, and a successful cutActions from an Accumulating
\* certificate yields a BetweenBatches one.
C14_BatchStateMachine ==
  \A i \in 1..Len(chain) :
    /\ chain[i].method = "init" => ~Accumulating(Out(i))
    /\ chain[i].method = "addTicket" => Accumulating(Out(i))
    /\ (chain[i].method = "cutActions" /\ Accumulating(Out(i - 1)))
         => ~Accumulating(Out(i))

\* C15: an addTicket on a valid predecessor whose action has a round strictly
\* less than the predecessor's lastProcessedRound is accepted exactly when the
\* witnessed ticket id is lastProcessedTicketId + 1, the witnesses recompute
\* the predecessor's roots and the witnessed keys are the action's round; it
\* then yields lastProcessedRound = the smaller round and
\* lastProcessedTicketId = lastProcessedTicketId + 1.
C15_RoundRegression ==
  [][ ( /\ attempt'.method = "addTicket"
        /\ attempt'.prevProof.valid
        /\ attempt'.publicInput.action.round
             < attempt'.prevProof.publicOutput.lastProcessedRound )
      => LET x    == attempt'.publicInput
             prev == attempt'.prevProof.publicOutput
             next == (prev.lastProcessedTicketId + 1) % FieldOrder
         IN /\ (attempt'.error = "")
                 <=> ( /\ x.roundTicketWitness.key = next
                       /\ ~StaleRoot(attempt')
                       /\ ~RoundMismatch(attempt') )
            /\ attempt'.error = "" =>
                 LET out == chain'[Len(chain')].publicOutput
                 IN /\ Len(chain') = attempt'.prevProof.index + 1
                    /\ out.lastProcessedRound = x.action.round
                    /\ out.lastProcessedRound < prev.lastProcessedRound
                    /\ out.lastProcessedTicketId = next ]_vars

\* An accepted addTicket whose round is below the predecessor's
\* lastProcessedRound
C15_Witness ==
  /\ attempt.method = "addTicket"
  /\ attempt.error = ""
  /\ attempt.publicInput.action.round
       < attempt.prevProof.publicOutput.lastProcessedRound
  /\ Out(Len(chain)).lastProcessedTicketId = 2

C17_RoundAgreement ==
  [][ attempt'.method = "addTicket" =>
        LET x == attempt'.publicInput
        IN /\ ( \/ x.action.round # x.roundWitness.key
                \/ x.bankWitness.key # x.roundWitness.key )
                => (attempt'.error # "" /\ chain' = chain)
           /\ attempt'.error = "" =>
                /\ x.roundWitness.key = x.action.round
                /\ x.bankWitness.key = x.action.round
                /\ chain'[Len(chain')].publicInput = x
                /\ chain'[Len(chain')].publicOutput.lastProcessedRound
                     = x.action.round ]_vars

\* An addTicket with the expected id, matching ticket witnesses and a bank
\* witness for another round whose leaf holds the given bankValue, rejected
C17_Witness ==
  /\ attempt.method = "addTicket"
  /\ attempt.error = "Wrong bankKey"
  /\ attempt.publicInput.roundWitness.key = attempt.publicInput.action.round
  /\ attempt.publicInput.bankWitness.key # attempt.publicInput.action.round
  /\ RecomputedBankRoot(attempt.publicInput)
       = attempt.prevProof.publicOutput.newBankRoot

\* Input x passes every assertion of addTicket on certificate i of the chain
AcceptedOn(x, i) ==
  LET call == [publicInput |-> x, prevProof |-> ProofOf(i)]
  IN ~WrongTicketId(call) /\ ~StaleRoot(call) /\ ~RoundMismatch(call)

\* C18: when certificate K' of the chain came from addTicket on certificate K,
\* an addTicket on K' with an input that K accepts (another successor of K,
\* or the same one again) is rejected: its ticket witnesses recompute
\* K.newTicketRoot, which is no longer K'.newTicketRoot.  An accepted call
\* leaves a chain in which the new certificate is the only successor of its
\* predecessor.
C18_DivergentSuccessors ==
  [][ attempt'.method = "addTicket" =>
        LET x == attempt'.publicInput
            n == attempt'.prevProof.index
        IN /\ ( /\ attempt'.prevProof.valid
                /\ n >= 2
                /\ chain[n].method = "addTicket"
                /\ AcceptedOn(x, n - 1) )
                => /\ attempt'.error # ""
                   /\ chain' = chain
                   /\ RecomputedTicketRoot(x) = Out(n - 1).newTicketRoot
                   /\ RecomputedTicketRoot(x) # Out(n).newTicketRoot
           /\ attempt'.error = "" =>
                /\ Len(chain') = n + 1
                /\ SubSeq(chain', 1, n) = SubSeq(chain, 1, n)
                /\ RecomputedTicketRoot(x)
                     # chain'[n + 1].publicOutput.newTicketRoot ]_vars

\* An addTicket on K' with the input of another successor of K, for another
\* round and with the id K' expects, rejected for its ticket root
C18_Witness ==
  /\ attempt.method = "addTicket"
  /\ attempt.prevProof.valid
  /\ attempt.prevProof.index = Len(chain)
  /\ Len(chain) >= 2
  /\ chain[Len(chain)].method = "addTicket"
  /\ AcceptedOn(attempt.publicInput, Len(chain) - 1)
  /\ attempt.publicInput.action.round # In(Len(chain)).action.round
  /\ attempt.error = "Wrong ticket root"

\* The ticket ids whose slot in round r's sub-tree of ticket tree t is occupied
Occupied(t, r) == { id \in Ids : t[r][id] # 0 }

\* C19: when the initial ticket tree is empty, in every certificate of the
\* chain and for every round r the occupied ticket ids of round r are exactly
\* 1..n for some n >= 0.
C19_ContiguousSlots ==
  anchors.initialTicketRoot = EmptyTicketTree =>
    \A i \in 1..Len(chain) : \A r \in Rounds :
      \E n \in 0..MaxId : Occupied(Out(i).newTicketRoot, r) = 1..n

\* The slot (round, ticket id) that a call's ticket witnesses address
TargetSlot(call) ==
  << call.publicInput.roundWitness.key, call.publicInput.roundTicketWitness.key >>

\* C20: a slot of the ticket tree that holds a commitment in one certificate
\* of the chain holds the same commitment in every later one, and a call of
\* addTicket (or of cutActions, which runs it) whose witnesses address a slot
\* that is occupied in the predecessor's ticket tree is rejected.
C20_NoOverwrite ==
  /\ \A i \in 1..Len(chain) : \A j \in i..Len(chain) :
       \A r \in Rounds, id \in Ids :
         Out(i).newTicketRoot[r][id] # 0
           => Out(j).newTicketRoot[r][id] = Out(i).newTicketRoot[r][id]
  /\ ( /\ Called
       /\ attempt.prevProof.publicOutput.newTicketRoot
            [TargetSlot(attempt)[1]][TargetSlot(attempt)[2]] # 0 )
       => attempt.error # ""

\* A call on a certificate that addTicket produced, addressing an occupied
\* slot with the id the predecessor expects, rejected for its ticket root
C20_Witness ==
  /\ Called
  /\ attempt.prevProof.index >= 2
  /\ chain[attempt.prevProof.index].method = "addTicket"
  /\ attempt.prevProof.publicOutput.newTicketRoot
       [TargetSlot(attempt)[1]][TargetSlot(attempt)[2]] # 0
  /\ ~WrongTicketId(attempt)
  /\ attempt.error = "Wrong ticket root"

====
